---- MODULE Spec2Model ----
(***************************************************************************)
(* A model of the four promise-debugging wrappers of this repository:      *)
(*   double-fulfill.js  detectDoubleFulfilledPromise                       *)
(*   timeout.js         timeoutPromise                                     *)
(*   domain.js          domainProtectedPromise                             *)
(*   uncaught.js        detectUncaughtPromise                              *)
(* Each wrapper has its own specification (SpecDouble, SpecTimeout,        *)
(* SpecDomain, SpecUncaught) over the same variables.  The construction    *)
(* function handed to createPromise is an input: it is unfolded one step   *)
(* at a time (a settlement call, a deferred callback, a raised error, or   *)
(* its return), every step chosen from small sets.                         *)
(***************************************************************************)
EXTENDS Integers, Sequences, FiniteSets, TLC

\* ------------------------------------------------------------- bounds
\* user values are 1..MaxVal
MaxVal == 2
\* a construction function makes at most MaxSteps calls (settlement calls
\* and deferrals together)
MaxSteps == 3
\* of which at most MaxDeferred schedule a callback
MaxDeferred == 2
\* delays a construction function passes to setTimeout: 0..MaxDelay
MaxDelay == 2
\* deadlines handed to timeoutPromise: -1..MaxDeadline
MaxDeadline == 1
\* wrappers the caller of uncaught.js holds: the one createPromise returned
\* and the ones its then, catch and detectUncaughtPromise calls returned
MaxExposed == 3

\* ------------------------------------------------------------- constants
\* uncaught.js line 43: detectUncaughtPromise(promise, 1000)
UncaughtTimeout == 1000

VARIABLES
  pc,         \* "construct": inside the executor; "sync": the caller's
              \* synchronous code after createPromise; "loop": the event loop
  promises,   \* the native promises, promises[1] is the one createPromise built
  tasks,      \* callbacks scheduled and not yet run, in scheduling order
  now,        \* the clock of the timers
  reports,    \* what the reporting callback (errHandler, console.log) received
  fulfilled,  \* double-fulfill.js: the flag of line 5
  timeout,    \* timeout.js / uncaught.js: the delay handed to setTimeout
  links,      \* uncaught.js: one record per call of detectUncaughtPromise
  steps,      \* calls the construction function has made so far
  calls,      \* history: settlement calls the construction function has made
  first,      \* history: the first settlement call, and whether construct made
              \* it synchronously; NoCall before it
  thrown,     \* history: what the construction function raised, and after how
              \* many settlement calls; NotThrown if it raised nothing
  faults,     \* history: the errors the domain has intercepted, in order, each
              \* with the settlement calls made before it
  atDeadline  \* history: whether the deadline callback of timeoutPromise has run,
              \* the promise as it found it, the settlement calls made before it

vars == <<pc, promises, tasks, now, reports, fulfilled, timeout, links,
          steps, calls, first, thrown, faults, atDeadline>>

\* ------------------------------------------------------------- values
Val(n) == [tag |-> "value", id |-> n]
Values == {Val(n) : n \in 1..MaxVal}
Undefined == [tag |-> "undefined", id |-> 0]
\* timeout.js line 8: new Error('timeout error')
TimeoutError == [tag |-> "timeout error", id |-> 0]
\* double-fulfill.js lines 9-10
DoubleFulfillError == [tag |-> "promise is fulfilled multiple time", id |-> 0]

NoCall == [kind |-> "none", val |-> Undefined, sync |-> FALSE]
NotThrown == [err |-> Undefined, after |-> -1]

Kinds == {"resolve", "reject"}

\* ------------------------------------------------------------- native Promise
\* The platform's Promise: created pending, settled at most once.
NewPromise == [state |-> "pending", value |-> Undefined,
               parent |-> 0, onResolved |-> "none", onRejected |-> "none",
               link |-> 0]

\* resolve(v) / reject(v) of the platform: the first call wins, later calls
\* are ignored.
Settle(p, kind, v) ==
  IF p.state = "pending"
    THEN [p EXCEPT !.state = IF kind = "resolve" THEN "fulfilled" ELSE "rejected",
                   !.value = v]
    ELSE p

Root == promises[1]
Settled(p) == p.state # "pending"

\* what a settlement call asks for
Outcome(kind, v) ==
  [state |-> IF kind = "resolve" THEN "fulfilled" ELSE "rejected", value |-> v]
StateOf(p) == [state |-> p.state, value |-> p.value]

\* ------------------------------------------------------------- scheduler
\* setTimeout of the platform: a delay below 1 counts as 1.
Duration(delay) == IF delay < 1 THEN 1 ELSE delay
TimerDue(delay) == now + Duration(delay)

\* A callback scheduled by process.nextTick runs before every timer.  Timers
\* run in order of expiry; timers of one duration that expire together run
\* in scheduling order, timers of different durations in either order.
Runnable(i) ==
  /\ i \in 1..Len(tasks)
  /\ IF tasks[i].tick
       THEN \A j \in 1..(i-1) : ~tasks[j].tick
       ELSE \A j \in 1..Len(tasks) :
              /\ ~tasks[j].tick
              /\ \/ tasks[j].due > tasks[i].due
                 \/ /\ tasks[j].due = tasks[i].due
                    /\ (j >= i \/ tasks[j].delay # tasks[i].delay)

Remove(s, i) == SubSeq(s, 1, i-1) \o SubSeq(s, i+1, Len(s))

Clock(i) == IF tasks[i].tick \/ tasks[i].due < now THEN now ELSE tasks[i].due

\* the callbacks a construction function defers: one settlement call each,
\* by process.nextTick (tick) or by setTimeout(delay)
Deferred(kind, v, tick, delay) ==
  [run |-> kind, val |-> v, tick |-> tick,
   due |-> IF tick THEN now ELSE TimerDue(delay),
   delay |-> IF tick THEN 0 ELSE Duration(delay), link |-> 0]

\* ------------------------------------------------------------- history
NotFired == [fired |-> FALSE, found |-> StateOf(NewPromise), calls |-> 0]

Called(kind, v) ==
  /\ calls' = calls + 1
  /\ first' = IF first = NoCall
               THEN [kind |-> kind, val |-> v, sync |-> pc = "construct"]
               ELSE first

NoHistory ==
  /\ steps = 0
  /\ calls = 0
  /\ first = NoCall
  /\ thrown = NotThrown
  /\ faults = <<>>
  /\ atDeadline = NotFired

\* ------------------------------------------------------------- double-fulfill.js
\* The function wrap(fulfill) returns (lines 8-14), called with val while the
\* flag is flag, the reports so far are rep and the promise is p: report if
\* the flag is set, set the flag, forward the call.
wrapNoFlag(flag, rep, p, kind, val) ==
  [fulfilled |-> flag,
   reports |-> IF flag THEN Append(rep, DoubleFulfillError) ELSE rep,
   promise |-> Settle(p, kind, val)]

wrap(flag, rep, p, kind, val) ==
  [fulfilled |-> TRUE,
   reports |-> IF flag THEN Append(rep, DoubleFulfillError) ELSE rep,
   promise |-> Settle(p, kind, val)]

\* a call of wrap(resolve) or wrap(reject) by the construction function
DoubleWrapped(kind, val) ==
  LET r == wrap(fulfilled, reports, Root, kind, val) IN
    /\ fulfilled' = r.fulfilled
    /\ reports' = r.reports
    /\ promises' = [promises EXCEPT ![1] = r.promise]
    /\ Called(kind, val)

\* detectDoubleFulfilledPromise(construct, errHandler) up to the call of
\* construct (lines 4-5, 17)
DoubleInit ==
  /\ pc = "construct"
  /\ promises = <<NewPromise>>
  /\ tasks = <<>>
  /\ now = 0
  /\ reports = <<>>
  /\ fulfilled = FALSE
  /\ timeout = 0
  /\ links = <<>>
  /\ NoHistory

\* construct calls resolve(val) or reject(val) synchronously
DoubleConstructCall ==
  /\ pc = "construct"
  /\ steps < MaxSteps
  /\ \E kind \in Kinds, val \in Values : DoubleWrapped(kind, val)
  /\ steps' = steps + 1
  /\ UNCHANGED <<pc, tasks, now, timeout, links, thrown, faults, atDeadline>>

\* construct schedules a callback that will call resolve(val) or reject(val)
DoubleConstructDefer ==
  /\ pc = "construct"
  /\ steps < MaxSteps
  /\ Len(tasks) < MaxDeferred
  /\ \E kind \in Kinds, val \in Values, tick \in BOOLEAN, delay \in 0..MaxDelay :
       tasks' = Append(tasks, Deferred(kind, val, tick, delay))
  /\ steps' = steps + 1
  /\ UNCHANGED <<pc, promises, now, reports, fulfilled, timeout, links,
                 calls, first, thrown, faults, atDeadline>>

\* construct raises err: the Promise constructor catches it and rejects
DoubleConstructThrow ==
  /\ pc = "construct"
  /\ \E err \in Values :
       /\ promises' = [promises EXCEPT ![1] = Settle(@, "reject", err)]
       /\ thrown' = [err |-> err, after |-> calls]
  /\ pc' = "loop"
  /\ UNCHANGED <<tasks, now, reports, fulfilled, timeout, links,
                 steps, calls, first, faults, atDeadline>>

\* construct returns, and with it the executor (line 17)
DoubleConstructReturn ==
  /\ pc = "construct"
  /\ pc' = "loop"
  /\ UNCHANGED <<promises, tasks, now, reports, fulfilled, timeout, links,
                 steps, calls, first, thrown, faults, atDeadline>>

\* a deferred callback of construct runs and calls its wrapped callback
DoubleRunCallback ==
  /\ pc = "loop"
  /\ \E i \in 1..Len(tasks) :
       /\ Runnable(i)
       /\ DoubleWrapped(tasks[i].run, tasks[i].val)
       /\ now' = Clock(i)
       /\ tasks' = Remove(tasks, i)
  /\ UNCHANGED <<pc, timeout, links, steps, thrown, faults, atDeadline>>

NextDouble ==
  \/ DoubleConstructCall
  \/ DoubleConstructDefer
  \/ DoubleConstructThrow
  \/ DoubleConstructReturn
  \/ DoubleRunCallback

SpecDouble == DoubleInit /\ [][NextDouble]_vars

\* ------------------------------------------------------------- timeout.js
\* the callback handed to setTimeout (lines 7-9), run on promise p
deadlineCallbackResolve(p) == Settle(p, "resolve", TimeoutError)

deadlineCallbackForce(p) ==
  [p EXCEPT !.state = "rejected", !.value = TimeoutError]

deadlineCallbackNothing(p) == p

deadlineCallback(p) == Settle(p, "reject", TimeoutError)

\* the task setTimeout(callback, timeout) leaves with the scheduler (lines 7-9)
DeadlineTask ==
  [run |-> "deadline", val |-> TimeoutError, tick |-> FALSE,
   due |-> TimerDue(timeout), delay |-> Duration(timeout), link |-> 0]

\* setTimeout(callback, timeout) of lines 7-9 on the scheduler's tasks ts
setTimeoutTwice(ts) == Append(Append(ts, DeadlineTask), DeadlineTask)

setTimeoutDeadline(ts) == Append(ts, DeadlineTask)

\* timeoutPromise(timeout, construct) up to the call of construct (lines 3-5)
TimeoutInit ==
  /\ pc = "construct"
  /\ promises = <<NewPromise>>
  /\ tasks = <<>>
  /\ now = 0
  /\ reports = <<>>
  /\ fulfilled = FALSE
  /\ timeout \in -1..MaxDeadline
  /\ links = <<>>
  /\ NoHistory

\* construct calls resolve(val) or reject(val) synchronously: the promise's
\* own callbacks (line 5)
TimeoutConstructCallOf(vals) ==
  /\ pc = "construct"
  /\ steps < MaxSteps
  /\ \E kind \in Kinds, val \in vals :
       /\ promises' = [promises EXCEPT ![1] = Settle(@, kind, val)]
       /\ Called(kind, val)
  /\ steps' = steps + 1
  /\ UNCHANGED <<pc, tasks, now, reports, fulfilled, timeout, links,
                 thrown, faults, atDeadline>>

TimeoutConstructCall == TimeoutConstructCallOf(Values)

\* construct schedules a callback that will call resolve(val) or reject(val)
TimeoutConstructDeferOf(vals) ==
  /\ pc = "construct"
  /\ steps < MaxSteps
  /\ Len(tasks) < MaxDeferred
  /\ \E kind \in Kinds, val \in vals, tick \in BOOLEAN, delay \in 0..MaxDelay :
       tasks' = Append(tasks, Deferred(kind, val, tick, delay))
  /\ steps' = steps + 1
  /\ UNCHANGED <<pc, promises, now, reports, fulfilled, timeout, links,
                 calls, first, thrown, faults, atDeadline>>

TimeoutConstructDefer == TimeoutConstructDeferOf(Values)

\* construct raises err at line 5: the executor is left before line 7, the
\* Promise constructor catches err and rejects
TimeoutConstructThrowOf(vals) ==
  /\ pc = "construct"
  /\ \E err \in vals :
       /\ promises' = [promises EXCEPT ![1] = Settle(@, "reject", err)]
       /\ thrown' = [err |-> err, after |-> calls]
  /\ pc' = "loop"
  /\ UNCHANGED <<tasks, now, reports, fulfilled, timeout, links,
                 steps, calls, first, faults, atDeadline>>

TimeoutConstructThrow == TimeoutConstructThrowOf(Values)

\* construct returns; the executor goes on to setTimeout (lines 7-9)
TimeoutConstructReturn ==
  /\ pc = "construct"
  /\ tasks' = setTimeoutDeadline(tasks)
  /\ pc' = "loop"
  /\ UNCHANGED <<promises, now, reports, fulfilled, timeout, links,
                 steps, calls, first, thrown, faults, atDeadline>>

\* a deferred callback of construct runs and calls resolve or reject
TimeoutRunCallback ==
  /\ pc = "loop"
  /\ \E i \in 1..Len(tasks) :
       /\ Runnable(i)
       /\ tasks[i].run \in Kinds
       /\ promises' = [promises EXCEPT ![1] = Settle(@, tasks[i].run, tasks[i].val)]
       /\ Called(tasks[i].run, tasks[i].val)
       /\ now' = Clock(i)
       /\ tasks' = Remove(tasks, i)
  /\ UNCHANGED <<pc, reports, fulfilled, timeout, links, steps, thrown,
                 faults, atDeadline>>

\* the deadline callback runs (line 8)
TimeoutDeadline ==
  /\ pc = "loop"
  /\ \E i \in 1..Len(tasks) :
       /\ Runnable(i)
       /\ tasks[i].run = "deadline"
       /\ promises' = [promises EXCEPT ![1] = deadlineCallback(@)]
       /\ atDeadline' = [fired |-> TRUE, found |-> StateOf(Root), calls |-> calls]
       /\ now' = Clock(i)
       /\ tasks' = Remove(tasks, i)
  /\ UNCHANGED <<pc, reports, fulfilled, timeout, links, steps, calls, first,
                 thrown, faults>>

NextTimeout ==
  \/ TimeoutConstructCall
  \/ TimeoutConstructDefer
  \/ TimeoutConstructThrow
  \/ TimeoutConstructReturn
  \/ TimeoutRunCallback
  \/ TimeoutDeadline

SpecTimeout == TimeoutInit /\ [][NextTimeout]_vars

\* Whether and when the promise is settled does not depend on the values
\* construct settles with or raises: for the question of settlement one value
\* stands for all of them.
OneValue == {Val(1)}

NextTimeoutFair ==
  \/ TimeoutConstructCallOf(OneValue)
  \/ TimeoutConstructDeferOf(OneValue)
  \/ TimeoutConstructThrowOf(OneValue)
  \/ TimeoutConstructReturn
  \/ TimeoutRunCallback
  \/ TimeoutDeadline

\* the event loop runs every callback it was handed: a scheduled callback
\* that can run does run
SpecTimeoutFair ==
  /\ TimeoutInit
  /\ [][NextTimeoutFair]_vars
  /\ WF_vars(TimeoutRunCallback)
  /\ WF_vars(TimeoutDeadline)

\* ------------------------------------------------------------- domain.js
\* the domain's 'error' handler (lines 9-12), run with err on promise p while
\* the reports so far are rep
domainOnErrorNoReject(p, rep, err) ==
  [promise |-> p, reports |-> Append(rep, err)]

domainOnErrorIfPending(p, rep, err) ==
  [promise |-> Settle(p, "reject", err),
   reports |-> IF p.state = "pending" THEN Append(rep, err) ELSE rep]

domainOnError(p, rep, err) ==
  [promise |-> Settle(p, "reject", err), reports |-> Append(rep, err)]

\* what a callback deferred inside the domain does: one settlement call, or
\* it raises an error (lines 25-29)
DomainOps == Kinds \cup {"throw"}

\* domainProtectedPromise(construct, errorHandler) up to the call of construct
\* (lines 6-15)
DomainInit ==
  /\ pc = "construct"
  /\ promises = <<NewPromise>>
  /\ tasks = <<>>
  /\ now = 0
  /\ reports = <<>>
  /\ fulfilled = FALSE
  /\ timeout = 0
  /\ links = <<>>
  /\ NoHistory

\* construct calls resolve(val) or reject(val) synchronously (line 15)
DomainConstructCall ==
  /\ pc = "construct"
  /\ steps < MaxSteps
  /\ \E kind \in Kinds, val \in Values :
       /\ promises' = [promises EXCEPT ![1] = Settle(@, kind, val)]
       /\ Called(kind, val)
  /\ steps' = steps + 1
  /\ UNCHANGED <<pc, tasks, now, reports, fulfilled, timeout, links,
                 thrown, faults, atDeadline>>

\* construct schedules a callback, which the domain binds
DomainConstructDefer ==
  /\ pc = "construct"
  /\ steps < MaxSteps
  /\ Len(tasks) < MaxDeferred
  /\ \E op \in DomainOps, val \in Values, tick \in BOOLEAN, delay \in 0..MaxDelay :
       tasks' = Append(tasks, Deferred(op, val, tick, delay))
  /\ steps' = steps + 1
  /\ UNCHANGED <<pc, promises, now, reports, fulfilled, timeout, links,
                 calls, first, thrown, faults, atDeadline>>

\* construct raises err synchronously: domain.run lets it through to the
\* Promise constructor, which catches it and rejects; it never reaches the
\* domain's 'error' handler
DomainConstructThrow ==
  /\ pc = "construct"
  /\ \E err \in Values :
       /\ promises' = [promises EXCEPT ![1] = Settle(@, "reject", err)]
       /\ thrown' = [err |-> err, after |-> calls]
  /\ pc' = "loop"
  /\ UNCHANGED <<tasks, now, reports, fulfilled, timeout, links,
                 steps, calls, first, faults, atDeadline>>

\* construct returns, and with it domain.run and the executor (lines 14-16)
DomainConstructReturn ==
  /\ pc = "construct"
  /\ pc' = "loop"
  /\ UNCHANGED <<promises, tasks, now, reports, fulfilled, timeout, links,
                 steps, calls, first, thrown, faults, atDeadline>>

\* a deferred callback runs and calls resolve or reject
DomainRunCallback ==
  /\ pc = "loop"
  /\ \E i \in 1..Len(tasks) :
       /\ Runnable(i)
       /\ tasks[i].run \in Kinds
       /\ promises' = [promises EXCEPT ![1] = Settle(@, tasks[i].run, tasks[i].val)]
       /\ Called(tasks[i].run, tasks[i].val)
       /\ now' = Clock(i)
       /\ tasks' = Remove(tasks, i)
  /\ UNCHANGED <<pc, reports, fulfilled, timeout, links, steps, thrown,
                 faults, atDeadline>>

\* a deferred callback runs and raises an error: the domain intercepts it and
\* runs its 'error' handler (lines 9-12)
DomainIntercept ==
  /\ pc = "loop"
  /\ \E i \in 1..Len(tasks) :
       /\ Runnable(i)
       /\ tasks[i].run = "throw"
       /\ LET r == domainOnError(Root, reports, tasks[i].val) IN
            /\ promises' = [promises EXCEPT ![1] = r.promise]
            /\ reports' = r.reports
       /\ faults' = Append(faults, [err |-> tasks[i].val, after |-> calls])
       /\ now' = Clock(i)
       /\ tasks' = Remove(tasks, i)
  /\ UNCHANGED <<pc, fulfilled, timeout, links, steps, calls, first, thrown,
                 atDeadline>>

NextDomain ==
  \/ DomainConstructCall
  \/ DomainConstructDefer
  \/ DomainConstructThrow
  \/ DomainConstructReturn
  \/ DomainRunCallback
  \/ DomainIntercept

SpecDomain == DomainInit /\ [][NextDomain]_vars

\* ------------------------------------------------------------- uncaught.js
\* A handler handed to then or catch returns normally ("return") or raises
\* an error ("throw"); "none" is a handler left out, "report" the handler of
\* lines 31-34.
Handlers == {"return", "throw"}

\* the error a handler of promise p raises: a new Error each time
HandlerError(p) == [tag |-> "error inside error handler", id |-> p]

\* promise.then(onResolved, onRejected) of the platform on promise q: a new
\* pending promise, settled later from q by the handlers; by is the link whose
\* deadline callback attached the handler, 0 for the caller's handlers
nativeThen(st, q, onResolved, onRejected, by) ==
  [st EXCEPT !.promises =
     Append(@, [state |-> "pending", value |-> Undefined, parent |-> q,
                onResolved |-> onResolved, onRejected |-> onRejected,
                link |-> by])]

\* the platform settles promise p from its settled parent q: a handler that
\* returns fulfils p, a handler that raises rejects p, no handler passes q's
\* settlement on
reactionHandler(q, p) ==
  IF q.state = "fulfilled" THEN p.onResolved ELSE p.onRejected

reaction(q, p, id) ==
  LET h == reactionHandler(q, p) IN
    IF h = "none" THEN [p EXCEPT !.state = q.state, !.value = q.value]
    ELSE IF h = "throw"
      THEN [p EXCEPT !.state = "rejected", !.value = HandlerError(id)]
      ELSE [p EXCEPT !.state = "fulfilled", !.value = Undefined]

\* the elements of a set of numbers in ascending order
RECURSIVE Ascending(_)
Ascending(S) ==
  IF S = {} THEN <<>>
  ELSE LET least == CHOOSE x \in S : \A y \in S : x <= y
       IN <<least>> \o Ascending(S \ {least})

\* the promises of ps waiting to be settled from a parent that is settled
ReactionPending(ps) ==
  {p \in 1..Len(ps) : /\ ps[p].parent # 0
                      /\ ps[p].state = "pending"
                      /\ Settled(ps[ps[p].parent])}

\* lines 11 and 21: then passes whether it was given onRejected, catch passes true
nextCaughtThenOnly(onRejected, viaCatch) == ~viaCatch /\ onRejected # "none"

nextCaughtCatchOnly(onRejected, viaCatch) == viaCatch

nextCaught(onRejected, viaCatch) == viaCatch \/ onRejected # "none"

\* detectUncaughtPromise(promise, timeout, prevCaught), lines 3-8 and 24-38:
\* a new wrapper (a link) around target, which is a native promise or, when
\* wrapsLink, another wrapper; its flag chained is false, its stack is its own
\* call (its index), and its deadline callback is scheduled
detectUncaughtPromise(st, target, wrapsLink, prevCaught) ==
  [st EXCEPT
     !.links = Append(@, [target |-> target, wrapsLink |-> wrapsLink,
                          prevCaught |-> prevCaught, chained |-> FALSE,
                          exposed |-> FALSE, born |-> now, fired |-> FALSE]),
     !.tasks = Append(@, [run |-> "check", val |-> Undefined, tick |-> FALSE,
                          due |-> TimerDue(timeout),
                          delay |-> Duration(timeout),
                          link |-> Len(st.links) + 1])]

\* wrappedPromise.then(onResolved, onRejected) (lines 9-15) and
\* wrappedPromise.catch(errHandler) (lines 17-22, viaCatch) of link l: set
\* chained, register with the wrapped promise (itself a wrapper when
\* wrapsLink), wrap what that returns.  The wrapper returned is the last link.
\* lines 10 and 18: chained = true, the first statement of then and of catch
setChainedNot(st, l) == st

setChained(st, l) == [st EXCEPT !.links[l].chained = TRUE]

RECURSIVE wrappedPromise(_, _, _, _, _, _)
wrappedPromise(st, l, onResolved, onRejected, viaCatch, by) ==
  LET marked == setChained(st, l)
      inner == st.links[l].wrapsLink
      newPromise ==
        IF inner
          THEN wrappedPromise(marked, st.links[l].target, onResolved,
                              onRejected, viaCatch, by)
          ELSE nativeThen(marked, st.links[l].target, onResolved, onRejected, by)
  IN detectUncaughtPromise(newPromise,
                           IF inner THEN Len(newPromise.links)
                                    ELSE Len(newPromise.promises),
                           inner, nextCaught(onRejected, viaCatch))

UncaughtReport(l) == [kind |-> "uncaught terminal", link |-> l, err |-> Undefined]
HandlerReport(l, err) == [kind |-> "inside error handler", link |-> l, err |-> err]

\* the deadline callback of link l (lines 24-36)
deadlineCheckIgnoresChained(st, l) ==
  IF ~st.links[l].prevCaught
    THEN [st EXCEPT !.reports = Append(@, UncaughtReport(l))]
    ELSE IF st.links[l].wrapsLink
      THEN wrappedPromise(st, st.links[l].target, "none", "report", TRUE, l)
      ELSE nativeThen(st, st.links[l].target, "none", "report", l)

deadlineCheckIgnoresCaught(st, l) ==
  IF st.links[l].chained THEN st
  ELSE [st EXCEPT !.reports = Append(@, UncaughtReport(l))]

deadlineCheckReportsNothing(st, l) ==
  IF st.links[l].chained \/ ~st.links[l].prevCaught THEN st
  ELSE IF st.links[l].wrapsLink
    THEN wrappedPromise(st, st.links[l].target, "none", "report", TRUE, l)
    ELSE nativeThen(st, st.links[l].target, "none", "report", l)

deadlineCheckObservesFulfilment(st, l) ==
  IF st.links[l].chained THEN st
  ELSE IF ~st.links[l].prevCaught
    THEN [st EXCEPT !.reports = Append(@, UncaughtReport(l))]
    ELSE IF st.links[l].wrapsLink
      THEN wrappedPromise(st, st.links[l].target, "report", "none", FALSE, l)
      ELSE nativeThen(st, st.links[l].target, "report", "none", l)

deadlineCheckOnlyRejected(st, l) ==
  IF st.links[l].chained THEN st
  ELSE IF ~st.links[l].prevCaught
    THEN IF ~st.links[l].wrapsLink
              /\ st.promises[st.links[l].target].state # "rejected"
           THEN st
           ELSE [st EXCEPT !.reports = Append(@, UncaughtReport(l))]
    ELSE IF st.links[l].wrapsLink
      THEN wrappedPromise(st, st.links[l].target, "none", "report", TRUE, l)
      ELSE nativeThen(st, st.links[l].target, "none", "report", l)

deadlineCheck(st, l) ==
  IF st.links[l].chained THEN st
  ELSE IF ~st.links[l].prevCaught
    THEN [st EXCEPT !.reports = Append(@, UncaughtReport(l))]
    ELSE IF st.links[l].wrapsLink
      THEN wrappedPromise(st, st.links[l].target, "none", "report", TRUE, l)
      ELSE nativeThen(st, st.links[l].target, "none", "report", l)

\* The platform runs the waiting reactions one after the other, before any
\* other callback: each settles its promise, which makes the reactions of
\* that promise wait in turn, in the order they were registered.  The handler
\* of lines 31-34 reports the error it is given (lines 32-33).
RECURSIVE drain(_, _)
drain(st, queue) ==
  IF queue = <<>> THEN st
  ELSE LET p == Head(queue)
           q == st.promises[st.promises[p].parent]
           settled ==
             [st EXCEPT
                !.promises[p] = reaction(q, @, p),
                !.reports =
                  IF reactionHandler(q, st.promises[p]) = "report"
                    THEN Append(@, HandlerReport(st.promises[p].link, q.value))
                    ELSE @]
       IN drain(settled,
                Tail(queue) \o Ascending({c \in 1..Len(st.promises) :
                                            st.promises[c].parent = p}))

Microtasks(st) == drain(st, Ascending(ReactionPending(st.promises)))

\* the state the operators above work on
State == [promises |-> promises, links |-> links, tasks |-> tasks,
          reports |-> reports]

Becomes(st) ==
  /\ promises' = st.promises
  /\ links' = st.links
  /\ tasks' = st.tasks
  /\ reports' = st.reports

Expose(st) == [st EXCEPT !.links[Len(st.links)].exposed = TRUE]

Exposed == {l \in 1..Len(links) : links[l].exposed}

\* createPromise(construct) up to the call of construct (line 42)
UncaughtInit ==
  /\ pc = "construct"
  /\ promises = <<NewPromise>>
  /\ tasks = <<>>
  /\ now = 0
  /\ reports = <<>>
  /\ fulfilled = FALSE
  /\ timeout = UncaughtTimeout
  /\ links = <<>>
  /\ NoHistory

\* construct calls resolve(1) or reject(1) synchronously (lines 47, 53).  The
\* promise is the platform's and ignores every call after the first, so one
\* call stands for all of them.
UncaughtConstructCall ==
  /\ pc = "construct"
  /\ steps = 0
  /\ \E kind \in Kinds :
       /\ promises' = [promises EXCEPT ![1] = Settle(@, kind, Val(1))]
       /\ Called(kind, Val(1))
  /\ steps' = steps + 1
  /\ UNCHANGED <<pc, tasks, now, reports, fulfilled, timeout, links,
                 thrown, faults, atDeadline>>

\* construct schedules a callback that will call resolve(1) or reject(1),
\* after a multiple of the wrappers' timeout
UncaughtConstructDefer ==
  /\ pc = "construct"
  /\ steps = 0
  /\ \E kind \in Kinds, delay \in 0..MaxDelay :
       tasks' = Append(tasks, Deferred(kind, Val(1), FALSE, delay * timeout))
  /\ steps' = steps + 1
  /\ UNCHANGED <<pc, promises, now, reports, fulfilled, timeout, links,
                 calls, first, thrown, faults, atDeadline>>

\* construct raises an error: the Promise constructor catches it and
\* rejects; createPromise goes on to wrap the promise (line 43).  An error
\* raised after a settlement call or a deferral is left out: the promise is
\* the platform's, and the first of them decides alone.
UncaughtConstructThrow ==
  /\ pc = "construct"
  /\ steps = 0
  /\ Becomes(Expose(detectUncaughtPromise(
       [State EXCEPT !.promises[1] = Settle(@, "reject", Val(1))],
       1, FALSE, FALSE)))
  /\ thrown' = [err |-> Val(1), after |-> calls]
  /\ pc' = "sync"
  /\ UNCHANGED <<now, fulfilled, timeout, steps, calls, first, faults,
                 atDeadline>>

\* construct returns; createPromise wraps the promise (line 43) and returns
\* the wrapper to its caller
UncaughtConstructReturn ==
  /\ pc = "construct"
  /\ Becomes(Expose(detectUncaughtPromise(State, 1, FALSE, FALSE)))
  /\ pc' = "sync"
  /\ UNCHANGED <<now, fulfilled, timeout, steps, calls, first, thrown,
                 faults, atDeadline>>

\* what follows a call by the caller: nothing yet inside the statement that
\* called createPromise, the waiting reactions once the event loop runs
AfterCall(st) == IF pc = "sync" THEN st ELSE Microtasks(st)

\* the caller calls then(onResolved) or then(onResolved, onRejected) on a
\* wrapper it holds, in the statement that called createPromise or later;
\* the rejection handlers that raise are handed to catch
UncaughtThen ==
  /\ Cardinality(Exposed) < MaxExposed
  /\ \E l \in Exposed, onResolved \in Handlers, onRejected \in {"none", "return"} :
       Becomes(AfterCall(Expose(
         wrappedPromise(State, l, onResolved, onRejected, FALSE, 0))))
  /\ UNCHANGED <<pc, now, fulfilled, timeout, steps, calls, first, thrown,
                 faults, atDeadline>>

\* the caller calls catch(errHandler) on a wrapper it holds
UncaughtCatch ==
  /\ Cardinality(Exposed) < MaxExposed
  /\ \E l \in Exposed, errHandler \in Handlers :
       Becomes(AfterCall(Expose(
         wrappedPromise(State, l, "none", errHandler, TRUE, 0))))
  /\ UNCHANGED <<pc, now, fulfilled, timeout, steps, calls, first, thrown,
                 faults, atDeadline>>

\* the caller hands a wrapper it holds to detectUncaughtPromise again, as
\* createPromise does with a promise (line 43)
UncaughtWrapAgain ==
  /\ pc = "sync"
  /\ Cardinality(Exposed) < MaxExposed
  /\ \E l \in Exposed :
       Becomes(Expose(detectUncaughtPromise(State, l, TRUE, FALSE)))
  /\ UNCHANGED <<pc, now, fulfilled, timeout, steps, calls, first, thrown,
                 faults, atDeadline>>

\* the caller's statement ends: the event loop takes over, the waiting
\* reactions first
UncaughtYield ==
  /\ pc = "sync"
  /\ pc' = "loop"
  /\ Becomes(Microtasks(State))
  /\ UNCHANGED <<now, fulfilled, timeout, steps, calls, first, thrown,
                 faults, atDeadline>>

\* a deferred callback of construct runs and calls resolve or reject
UncaughtRunCallback ==
  /\ pc = "loop"
  /\ \E i \in 1..Len(tasks) :
       /\ Runnable(i)
       /\ tasks[i].run \in Kinds
       /\ Becomes(Microtasks(
            [State EXCEPT !.promises[1] = Settle(@, tasks[i].run, tasks[i].val),
                          !.tasks = Remove(@, i)]))
       /\ Called(tasks[i].run, tasks[i].val)
       /\ now' = Clock(i)
  /\ UNCHANGED <<pc, fulfilled, timeout, steps, thrown, faults, atDeadline>>

\* the deadline callback of a link runs (lines 24-36)
UncaughtDeadline ==
  /\ pc = "loop"
  /\ \E i \in 1..Len(tasks) :
       /\ Runnable(i)
       /\ tasks[i].run = "check"
       /\ now' = Clock(i)
       /\ LET l == tasks[i].link
              st == [State EXCEPT !.tasks = Remove(@, i),
                                  !.links[l].fired = TRUE]
          IN Becomes(Microtasks(deadlineCheck(st, l)))
  /\ UNCHANGED <<pc, fulfilled, timeout, steps, calls, first, thrown,
                 faults, atDeadline>>

NextUncaught ==
  \/ UncaughtConstructCall
  \/ UncaughtConstructDefer
  \/ UncaughtConstructThrow
  \/ UncaughtConstructReturn
  \/ UncaughtThen
  \/ UncaughtCatch
  \/ UncaughtWrapAgain
  \/ UncaughtYield
  \/ UncaughtRunCallback
  \/ UncaughtDeadline

SpecUncaught == UncaughtInit /\ [][NextUncaught]_vars

\* ------------------------------------------------------------- claims
\* C1, as claimed: once construct has made N > 1 settlement calls, the
\* reporting callback has been invoked N-1 times and the promise holds what
\* the first call asked for.
DoubleFirstCallWins ==
  calls > 1 =>
    /\ Len(reports) = calls - 1
    /\ StateOf(Root) = Outcome(first.kind, first.val)

\* C1, as amended: once construct has made N > 1 settlement calls, the
\* reporting callback has been invoked N-1 times, and the promise holds what
\* the first call asked for, unless construct raised an error before its
\* first call: then the promise is rejected with that error.
DoubleFirstCallWinsUnlessThrown ==
  calls > 1 =>
    /\ Len(reports) = calls - 1
    /\ StateOf(Root) = IF thrown.after = 0
                         THEN Outcome("reject", thrown.err)
                         ELSE Outcome(first.kind, first.val)

\* three calls, a reject first and a resolve later, all reported but the first
DoubleManyCalls ==
  /\ calls = 3
  /\ first.kind = "reject"
  /\ Len(reports) = 2
  /\ Root.state = "rejected"

\* C2: a call of a wrapped settlement callback on a promise that is already
\* settled, whatever settled it, invokes the reporting callback.
DoubleSettledCallReports ==
  [][(Settled(Root) /\ calls' = calls + 1) => Len(reports') = Len(reports) + 1]_vars

\* C3: with a deadline above 0, a promise the deadline callback found pending
\* is rejected with the timeout error from then on, whatever settlement calls
\* construct makes afterwards.
TimeoutRejectsPending ==
  (timeout > 0 /\ atDeadline.fired /\ atDeadline.found.state = "pending") =>
    StateOf(Root) = Outcome("reject", TimeoutError)

\* the deadline found the promise pending, and construct called resolve or
\* reject after it
TimeoutThenLateCall ==
  /\ timeout > 0
  /\ atDeadline.fired
  /\ atDeadline.found.state = "pending"
  /\ calls > atDeadline.calls
  /\ tasks = <<>>

\* C4: a promise construct settled before the deadline callback ran is left
\* by the callback as it was, and never holds the timeout error.
TimeoutKeepsSettled ==
  (atDeadline.fired /\ atDeadline.found.state # "pending") =>
    /\ StateOf(Root) = atDeadline.found
    /\ Root.value # TimeoutError

\* the deadline callback ran on a promise construct had fulfilled
TimeoutAfterFulfil ==
  /\ atDeadline.fired
  /\ atDeadline.found.state = "fulfilled"
  /\ atDeadline.calls > 0

\* the errors intercepted so far, in order
FaultErrors == [i \in 1..Len(faults) |-> faults[i].err]

\* C5: construct did nothing but schedule one callback, which raised an error
\* (no settlement call, no error raised by construct itself): the promise is
\* rejected with that error and the reporting callback was invoked once, with
\* that error.
DomainAsyncErrorRejects ==
  (/\ pc = "loop"
   /\ tasks = <<>>
   /\ calls = 0
   /\ thrown = NotThrown
   /\ Len(faults) = 1) =>
    /\ StateOf(Root) = Outcome("reject", faults[1].err)
    /\ reports = <<faults[1].err>>

\* the example of domain.js lines 24-29 after its callback has run
DomainAsyncErrorSeen ==
  /\ pc = "loop"
  /\ tasks = <<>>
  /\ steps = 1
  /\ calls = 0
  /\ thrown = NotThrown
  /\ Len(faults) = 1
  /\ Root.state = "rejected"

\* the settlement that reached the promise first: an error construct raised
\* before any call, else the first intercepted error if no call came before
\* it, else the first settlement call
DomainFirstSettlement ==
  IF thrown.after = 0 THEN Outcome("reject", thrown.err)
  ELSE IF faults # <<>> /\ faults[1].after = 0
    THEN Outcome("reject", faults[1].err)
    ELSE Outcome(first.kind, first.val)

\* C6: when a settlement call and an intercepted error have both occurred,
\* in either order, the promise holds the settlement that reached it first,
\* and the reporting callback was invoked once for every intercepted error.
DomainFirstWinsAllReported ==
  (calls > 0 /\ faults # <<>>) =>
    /\ StateOf(Root) = DomainFirstSettlement
    /\ reports = FaultErrors

\* an error intercepted after a settlement call had fulfilled the promise,
\* and reported all the same
DomainLateFaultReported ==
  /\ faults # <<>>
  /\ faults[1].after > 0
  /\ Root.state = "fulfilled"
  /\ Len(reports) = Len(faults)

\* an error intercepted first, a settlement call after it
DomainFaultThenCall ==
  /\ faults # <<>>
  /\ faults[1].after = 0
  /\ calls > 0
  /\ thrown = NotThrown

\* the caller registered on the root wrapper in the statement that called
\* createPromise, with these handlers, and construct has rejected with 1
Registered(l, parent, onResolved, onRejected) ==
  /\ Len(links) >= l
  /\ Len(promises) >= l
  /\ ~links[l].wrapsLink
  /\ links[l].target = l
  /\ links[l].born = 0
  /\ promises[l].parent = parent
  /\ promises[l].onResolved = onResolved
  /\ promises[l].onRejected = onRejected
  /\ promises[l].link = 0

\* createPromise(reject(1)).then(onFulfilled), and no other registration
ChainThen ==
  /\ StateOf(Root) = Outcome("reject", Val(1))
  /\ Len(links) = 2
  /\ Registered(2, 1, "return", "none")

\* C7: for createPromise(reject(1)).then(onFulfilled) with nothing registered
\* afterwards, the only report ever produced is the 'uncaught terminal' report
\* of the link then returned, with that link's stack, produced when that
\* link's deadline callback runs; the root link produces none.
UncaughtThenOneReport ==
  ChainThen =>
    reports = IF links[2].fired THEN <<UncaughtReport(2)>> ELSE <<>>

\* the chain of lines 46-50 after both deadline callbacks have run
UncaughtThenReported ==
  /\ ChainThen
  /\ links[1].chained
  /\ links[1].fired
  /\ links[2].fired
  /\ tasks = <<>>

\* createPromise(reject(1)).catch(handler), the handler raising, and no
\* other registration
ChainCatchThrows ==
  /\ StateOf(Root) = Outcome("reject", Val(1))
  /\ Len(links) = 2
  /\ Registered(2, 1, "none", "throw")

\* C8: for createPromise(reject(1)).catch(handler) with a handler that raises
\* and nothing registered afterwards, the only report ever produced is one
\* 'inside error handler' report carrying the error the handler raised,
\* produced once the deadline of the link catch returned has passed; no link
\* produces an 'uncaught terminal' report.
UncaughtCatchOneHandlerReport ==
  ChainCatchThrows =>
    reports = IF links[2].fired
                THEN <<HandlerReport(2, HandlerError(2))>> ELSE <<>>

\* the chain of lines 52-58 after both deadline callbacks have run
UncaughtCatchReported ==
  /\ ChainCatchThrows
  /\ links[1].fired
  /\ links[2].fired
  /\ tasks = <<>>
  /\ Len(reports) = 1

\* createPromise(reject(1)).catch(h1).catch(h2), h1 raising and h2 returning,
\* and no other registration
ChainDoubleCatch ==
  /\ StateOf(Root) = Outcome("reject", Val(1))
  /\ Len(links) = 3
  /\ Registered(2, 1, "none", "throw")
  /\ Registered(3, 2, "none", "return")

\* C9: for createPromise(reject(1)).catch(h1).catch(h2) with h1 raising and
\* h2 returning normally, none of the three links ever produces a report.
UncaughtDoubleCatchSilent ==
  ChainDoubleCatch => reports = <<>>

\* the double catch pattern after its three deadline callbacks have run, the
\* last one having attached its handler to the promise h2 fulfilled
UncaughtDoubleCatchDone ==
  /\ ChainDoubleCatch
  /\ \A l \in 1..3 : links[l].fired
  /\ tasks = <<>>
  /\ Len(promises) = 4
  /\ promises[4].parent = 3
  /\ promises[4].onRejected = "report"
  /\ promises[3].state = "fulfilled"

\* the native promise at the bottom of link l
RECURSIVE Underlying(_)
Underlying(l) ==
  IF links[l].wrapsLink THEN Underlying(links[l].target) ELSE links[l].target

\* the wrapper createPromise returned (link 1) was handed to
\* detectUncaughtPromise again (link 2), and then or catch was called on the
\* outer wrapper
ChainOnOuterWrapper ==
  /\ Len(links) >= 2
  /\ links[2].wrapsLink
  /\ links[2].chained

\* no two reports are about promise p
ReportedOnce(p) ==
  \A i, j \in 1..Len(reports) :
    (i # j /\ Underlying(reports[i].link) = p) => Underlying(reports[j].link) # p

\* C10: when a wrapper is wrapped again and a chain is built on the outer
\* wrapper, reports are not duplicated: as with a single wrapping, no two
\* reports are about the same promise of the chain.
UncaughtNoDuplicateReports ==
  ChainOnOuterWrapper =>
    \A p \in 2..Len(promises) : ReportedOnce(p)

\* with a single wrapping no two reports are about the same promise, the
\* root included
UncaughtSingleWrapNoDuplicates ==
  (\A l \in 1..Len(links) : ~links[l].wrapsLink) =>
    \A p \in 1..Len(promises) : ReportedOnce(p)

\* the links that produced an 'uncaught terminal' report and wrap a promise
\* of the platform, as every link of a chain built on createPromise's wrapper
UncaughtReported ==
  {reports[i].link : i \in {j \in 1..Len(reports) :
                              /\ reports[j].kind = "uncaught terminal"
                              /\ ~links[reports[j].link].wrapsLink}}

\* the caller's registration that produced promise p supplied a rejection
\* handler: a catch, or a then with an onRejected argument
HandlerSupplied(p) ==
  /\ promises[p].parent # 0
  /\ promises[p].link = 0
  /\ promises[p].onRejected # "none"

\* some registration on the path from the root to promise p supplied one
RECURSIVE HandlerOnPath(_)
HandlerOnPath(p) ==
  /\ promises[p].parent # 0
  /\ (HandlerSupplied(p) \/ HandlerOnPath(promises[p].parent))

\* C11, as claimed: a link produces an 'uncaught terminal' report only if no
\* registration on the path from the root to it supplied a rejection handler.
UncaughtOnlyWithoutAncestorHandler ==
  \A l \in UncaughtReported : ~HandlerOnPath(links[l].target)

\* C11, as amended: a link produces an 'uncaught terminal' report only if the
\* registration that produced it supplied no rejection handler; what earlier
\* registrations of the chain supplied does not count.
UncaughtOnlyWithoutOwnHandler ==
  \A l \in UncaughtReported : ~HandlerSupplied(links[l].target)

\* createPromise(f).catch(h).then(g): the link then returned has reported,
\* the link catch returned has run its deadline callback without one
UncaughtAfterCatchThenReported ==
  /\ Len(links) = 3
  /\ Registered(2, 1, "none", "return")
  /\ Registered(3, 2, "return", "none")
  /\ links[2].fired
  /\ links[3].fired
  /\ UncaughtReported = {3}

\* the deadline callbacks timeoutPromise has scheduled: those waiting and the
\* one that has run
DeadlinesScheduled ==
  Cardinality({i \in 1..Len(tasks) : tasks[i].run = "deadline"})
    + (IF atDeadline.fired THEN 1 ELSE 0)

\* C12, as claimed: once timeoutPromise has returned, exactly one deadline
\* callback has been scheduled, whatever construct did.
TimeoutAlwaysOneDeadline ==
  pc = "loop" => DeadlinesScheduled = 1

\* C12, as amended: once timeoutPromise has returned, exactly one deadline
\* callback has been scheduled if construct returned, and none if construct
\* raised an error: then the promise is settled all the same, by construct or
\* with the error it raised.  While it waits the callback carries the timeout
\* error, and once it has run a promise it found pending is rejected with it.
TimeoutOneDeadlineUnlessThrown ==
  /\ pc = "construct" => DeadlinesScheduled = 0
  /\ pc = "loop" =>
       /\ DeadlinesScheduled = IF thrown = NotThrown THEN 1 ELSE 0
       /\ thrown # NotThrown => Settled(Root)
  /\ \A i \in 1..Len(tasks) :
       tasks[i].run = "deadline" => tasks[i].val = TimeoutError
  /\ (atDeadline.fired /\ atDeadline.found.state = "pending") =>
       Root.value = TimeoutError

\* construct deferred a settlement call and then raised an error: the
\* deferred call has run, and no deadline callback was ever scheduled
TimeoutThrownNoDeadline ==
  /\ pc = "loop"
  /\ thrown # NotThrown
  /\ thrown.after = 0
  /\ calls > 0
  /\ tasks = <<>>
  /\ ~atDeadline.fired

\* C13: once timeoutPromise has returned its promise, the promise is settled
\* sooner or later, whatever construct did, provided the event loop runs the
\* callbacks scheduled with it.
TimeoutEventuallySettled ==
  (pc = "loop") ~> Settled(Root)

\* construct never made a settlement call and raised nothing: the deadline
\* callback has settled the promise
TimeoutSettledByDeadlineAlone ==
  /\ pc = "loop"
  /\ steps = 0
  /\ calls = 0
  /\ thrown = NotThrown
  /\ atDeadline.fired
  /\ StateOf(Root) = Outcome("reject", TimeoutError)

\* C14: with a deadline of 0 or less, every settlement call construct makes
\* asynchronously loses to the deadline callback: when construct has returned
\* without a synchronous settlement call and every callback has run, the
\* promise is rejected with the timeout error.
TimeoutZeroBeatsAsync ==
  (/\ timeout <= 0
   /\ pc = "loop"
   /\ tasks = <<>>
   /\ thrown = NotThrown
   /\ ~first.sync) =>
    StateOf(Root) = Outcome("reject", TimeoutError)

\* the link whose wrapper the caller's registration that made promise p of
\* the chain went through (the innermost one): the link around p's parent
LinkOf(q) == CHOOSE l \in 1..Len(links) : ~links[l].wrapsLink /\ links[l].target = q

\* every registration the caller has made through a wrapper has set the
\* flag of that wrapper's link
ChainedWhenRegistered ==
  \A p \in 1..Len(promises) :
    (promises[p].parent # 0 /\ promises[p].link = 0) =>
      links[LinkOf(promises[p].parent)].chained

\* C15: a call of a link's wrapped then or catch sets the link's flag chained
\* within the call, and the flag is never reset; the deadline callback of a
\* link that is chained when it runs does nothing, whatever prevCaught is: it
\* produces no report, attaches no handler and creates no link.
UncaughtChainedLinkDoesNothing ==
  [][/\ ChainedWhenRegistered'
     /\ \A l \in 1..Len(links) :
          /\ links[l].chained => links'[l].chained
          /\ (links[l].chained /\ ~links[l].fired /\ links'[l].fired) =>
               /\ reports' = reports
               /\ promises' = promises
               /\ Len(links') = Len(links)]_vars

\* createPromise(f).catch(h).then(g): the deadline callback of the link catch
\* returned (prevCaught true, chained by then) has run and left nothing
UncaughtChainedCaughtLinkFired ==
  /\ Len(links) >= 3
  /\ Registered(2, 1, "none", "throw")
  /\ Registered(3, 2, "return", "none")
  /\ links[2].prevCaught
  /\ links[2].chained
  /\ links[2].fired
  /\ \A i \in 1..Len(reports) : reports[i].link # 2
  /\ \A p \in 1..Len(promises) : promises[p].link # 2

\* link l has produced its 'uncaught terminal' report
HasUncaughtReport(rep, l) == \E i \in 1..Len(rep) : rep[i] = UncaughtReport(l)

\* C16: when the first then or catch call on a link with prevCaught false
\* comes after the link's deadline callback has run, the link has already
\* produced its 'uncaught terminal' report; the call leaves every report in
\* place and is served like any other: it creates a new link, whose own
\* deadline callback is scheduled a timeout from now.
UncaughtLateRegistrationServed ==
  [][\A l \in 1..Len(links) :
       (/\ ~links[l].prevCaught
        /\ links[l].fired
        /\ ~links[l].chained
        /\ links'[l].chained) =>
         /\ HasUncaughtReport(reports, l)
         /\ Len(reports') >= Len(reports)
         /\ SubSeq(reports', 1, Len(reports)) = reports
         /\ Len(links') > Len(links)
         /\ \A n \in (Len(links) + 1)..Len(links') :
              /\ ~links'[n].fired
              /\ ~links'[n].chained
              /\ \E i \in 1..Len(tasks') :
                   /\ tasks'[i].run = "check"
                   /\ tasks'[i].link = n
                   /\ tasks'[i].due = now + timeout]_vars

\* then or catch was first called on the root link after its deadline callback
\* had reported; the report is still there, and the deadline callback of the
\* new link has run as well
UncaughtLateRegistrationDone ==
  /\ Len(links) = 2
  /\ ~links[1].wrapsLink
  /\ links[1].chained
  /\ links[1].fired
  /\ links[2].born >= UncaughtTimeout
  /\ links[2].fired
  /\ HasUncaughtReport(reports, 1)

\* the handlers the deadline callback of link l has attached, as promises of
\* ps, and the reports of rep that name link l
ObserversOf(ps, l) == {p \in 1..Len(ps) : ps[p].link = l}
ReportsOf(rep, l) == SelectSeq(rep, LAMBDA r : r.link = l)

\* link l has prevCaught true: it has no 'uncaught terminal' report; without
\* a handler attached by its deadline callback it has no report at all, and
\* with one it has a single 'inside error handler' report carrying the
\* rejection error if the promise is rejected, and none if the promise is
\* fulfilled or pending
LastHandlerReported(l) ==
  /\ ~HasUncaughtReport(reports, l)
  /\ ObserversOf(promises, l) = {} => ReportsOf(reports, l) = <<>>
  /\ \A p \in ObserversOf(promises, l) :
       LET q == promises[promises[p].parent] IN
         /\ promises[p].parent = Underlying(l)
         /\ ReportsOf(reports, l) =
              IF q.state = "rejected"
                THEN <<[kind |-> "inside error handler", link |-> l,
                        err |-> q.value]>>
                ELSE <<>>

\* C17: the deadline callback of a link with prevCaught true that is not
\* chained attaches one handler to the link's promise; from then on the link
\* has an 'inside error handler' report exactly when that promise is
\* rejected, carrying its error, none while the promise is pending or when it
\* is fulfilled, and never an 'uncaught terminal' report.
UncaughtLastHandlerReport ==
  [][\A l \in 1..Len(links) :
       links[l].prevCaught =>
         /\ (~links[l].fired /\ links'[l].fired /\ ~links[l].chained) =>
              Cardinality(ObserversOf(promises', l)) = 1
         /\ (~links[l].fired /\ links'[l].fired /\ links[l].chained) =>
              ObserversOf(promises', l) = {}
         /\ LastHandlerReported(l)']_vars

\* createPromise(f).catch(h), f rejecting two timeouts later and h raising:
\* the deadline callback of the link catch returned found its promise pending,
\* and the report came when the promise was rejected
UncaughtLastHandlerLateRejection ==
  /\ Len(links) = 2
  /\ Registered(2, 1, "none", "throw")
  /\ links[2].prevCaught
  /\ links[2].fired
  /\ ~first.sync
  /\ now >= 2 * UncaughtTimeout
  /\ promises[2].state = "rejected"
  /\ ReportsOf(reports, 2) =
       <<[kind |-> "inside error handler", link |-> 2, err |-> promises[2].value]>>

\* the deadline callbacks scheduled for link l of ls: those waiting in ts and
\* the one that has run
TimersOf(ts, ls, l) ==
  Cardinality({i \in 1..Len(ts) : ts[i].run = "check" /\ ts[i].link = l})
    + (IF ls[l].fired THEN 1 ELSE 0)

\* every link has exactly one deadline callback and at most one report
OneTimerOneReport ==
  \A l \in 1..Len(links) :
    /\ TimersOf(tasks, links, l) = 1
    /\ Len(ReportsOf(reports, l)) <= 1

\* the deadline callback of an unchained link with prevCaught true runs in
\* this step
ObserverAttached(l) ==
  /\ links[l].prevCaught
  /\ ~links[l].chained
  /\ ~links[l].fired
  /\ links'[l].fired

\* attaching the handler creates no link and schedules no deadline callback
ObserverCreatesNothing ==
  /\ Len(links') = Len(links)
  /\ Len(tasks') = Len(tasks) - 1

\* C18: every call of detectUncaughtPromise schedules exactly one deadline
\* callback, every link produces at most one report, and the handler the
\* deadline callback attaches in the prevCaught branch creates no new link
\* and no new deadline callback.
UncaughtOneTimerNoNewWork ==
  [][/\ OneTimerOneReport'
     /\ \A l \in 1..Len(links) :
          ObserverAttached(l) => ObserverCreatesNothing]_vars

\* the first two parts alone hold for every link, wrapped once or twice
UncaughtOneTimerOneReport ==
  [][OneTimerOneReport']_vars

\* and so does the third for the wrappers around a promise of the platform
UncaughtNativeObserverCreatesNothing ==
  [][\A l \in 1..Len(links) :
       (ObserverAttached(l) /\ ~links[l].wrapsLink) => ObserverCreatesNothing]_vars

\* C19: whether the deadline callback of a link produces an 'uncaught
\* terminal' report is decided by the link's chained flag and prevCaught
\* alone, whatever the state of the promise: it does when both are false and
\* only then.  So the root link, when then and catch were never called on
\* it, has exactly one report once its deadline callback has run, the
\* 'uncaught terminal' one, be the promise pending, fulfilled or rejected.
UncaughtReportIgnoresSettlement ==
  [][/\ \A l \in 1..Len(links) :
          (~links[l].fired /\ links'[l].fired) =>
            (HasUncaughtReport(reports', l)
               <=> (~links[l].chained /\ ~links[l].prevCaught))
     /\ (Len(links') >= 1 /\ links'[1].fired /\ ~links'[1].chained) =>
          ReportsOf(reports', 1) = <<UncaughtReport(1)>>]_vars

\* the root link's deadline callback ran on state, then and catch never
\* having been called on the root wrapper
RootReportedIn(state) ==
  /\ Len(links) >= 1
  /\ links[1].fired
  /\ ~links[1].chained
  /\ Root.state = state
  /\ (first = NoCall \/ first.sync)
  /\ ReportsOf(reports, 1) = <<UncaughtReport(1)>>

\* a root promise still pending when its link reported
UncaughtPendingRootReported == RootReportedIn("pending")

\* and root promises fulfilled and rejected when their link reported
UncaughtFulfilledRootReported == RootReportedIn("fulfilled")
UncaughtRejectedRootReported == RootReportedIn("rejected")

====
